---- MODULE Spec2Model ----
(***************************************************************************)
(* A model of cheapodb: the Database, Table and Stream handles and the     *)
(* calls they issue to the managed services (IAM, S3, Glue, Firehose).     *)
(*                                                                         *)
(* The client is single threaded: one operation runs at a time (pc), and   *)
(* every service call it issues is appended to `calls`.  The services are  *)
(* the environment: their state (roles, crawlers, streams, objects) is     *)
(* changed by the client's calls and by other parties (the Env actions).   *)
(* A genuine service fault (throttling, access denied) is the exception    *)
(* Fault, which a call may raise where an action says so.                  *)
(*                                                                         *)
(* The handles reach the services through db.s3, db.glue, db.bucket and    *)
(* db.firehose.  The model takes each of them to offer the calls the code  *)
(* makes on it, as a stand-in handed to Table and Stream does; whether the *)
(* objects Database.__init__ builds offer them (it builds s3 as a boto3    *)
(* resource and sets no firehose attribute) is outside the model.          *)
(*                                                                         *)
(* The three components share no service state, so each is checked under   *)
(* its own specification: SpecDatabase (Database and utils), SpecStream,   *)
(* SpecNaming (Table construction and keys, over many names) and SpecTable *)
(* (the Table operations, over two tables of one prefix).  Table and       *)
(* Stream start from InitProvisioned, the state a constructed Database     *)
(* leaves.                                                                  *)
(***************************************************************************)
EXTENDS Integers, Sequences, FiniteSets, TLC

\* ------------------------------------------------------------------ bounds

\* the crawler poll loop is unbounded in the code; the model stops sleeping
\* after this many sleeps
MaxSleeps == 3

\* ------------------------------------------------------------ Python values

\* a bool or an int argument (wait: Union[bool, int]); a bool is an int in
\* Python, so its value is 0 or 1
PyBool(b) == [t |-> "bool", v |-> IF b THEN 1 ELSE 0]
PyInt(n) == [t |-> "int", v |-> n]

\* a mutation of Truthy: `if wait is not False`
TruthyIsNotFalse(w) == ~(w.t = "bool" /\ w.v = 0)

\* the truth value of `if wait:`
Truthy(w) == w.v # 0

\* the values of wait the model calls update_tables with (60 is the default)
WaitValues == {PyBool(FALSE), PyBool(TRUE), PyInt(0), PyInt(60)}

\* a text is the sequence of its characters; a str argument and None
PyStr(s) == [t |-> "str", s |-> s]
PyNone == [t |-> "NoneType", s |-> <<"N", "o", "n", "e">>]

\* str(v) as an f-string renders it
FStr(v) == v.s

Whitespace == {" ", "\t", "\n"}

RECURSIVE LStrip(_)
LStrip(s) == IF s # <<>> /\ Head(s) \in Whitespace THEN LStrip(Tail(s)) ELSE s

RECURSIVE RStrip(_)
RStrip(s) ==
    IF s # <<>> /\ s[Len(s)] \in Whitespace THEN RStrip(SubSeq(s, 1, Len(s) - 1)) ELSE s

\* str.strip()
Strip(s) == RStrip(LStrip(s))

\* str.startswith, and the Prefix filter of a listing
StartsWith(s, p) == Len(p) <= Len(s) /\ SubSeq(s, 1, Len(p)) = p

\* one step of posixpath.join: an absolute component replaces the path
Join2(path, b) ==
    IF StartsWith(b, <<"/">>) THEN b
    ELSE IF path = <<>> \/ path[Len(path)] = "/" THEN path \o b
    ELSE path \o <<"/">> \o b

\* os.path.join(a, b, c) of texts
OsPathJoin(a, b, c) == Join2(Join2(a, b), c)

\* --------------------------------------------------------------- exceptions

\* a genuine service fault: none of the conditions the code models
Fault == "AccessDeniedException"

\* ------------------------------------------------------------------- names

\* the name of the database (bucket and catalog namespace)
DbName == "db"
\* the crawler names create_crawler and update_tables are called with
CrawlerNames == {"db", "logs"}
\* a role name supplied by the caller as iam_role_name
CustomRole == "custom"
\* Python's None, for iam_role_name and for a function that returns nothing
None == "None"

\* f'{self.name}-CheapoDBExecutionRole'
DefaultRoleName(name) == name \o "-CheapoDBExecutionRole"

RoleNames == {DefaultRoleName(DbName), CustomRole}

\* response['Role']['Arn'] of the role named n: the service derives it from
\* the name and the path
RoleArn(n) == "arn:aws:iam::role/service-role/" \o n

\* the states of a crawler (Glue)
CrawlerStates == {"READY", "RUNNING", "STOPPING"}

\* a mutation of CrawlerActive: STOPPING ends the poll loop
CrawlerActiveRunningOnly(s) == s = "RUNNING"

\* the states update_tables sleeps in
CrawlerActive(s) == s = "RUNNING" \/ s = "STOPPING"

VARIABLES
    pc,           \* the position of the running operation ("idle", "done", ...)
    op,           \* the operation that runs or ran last
    args,         \* its arguments
    calls,        \* the service calls (and sleeps) it issued, in order
    outcome,      \* "none", "returned" or "raised"
    exc,          \* the exception raised, "" if none
    result,       \* the value returned
    faulted,      \* a call of the operation raised Fault
    conflict,     \* the create call of the operation that raised already-exists, "" if none
    existed,      \* the resource the operation provisions existed when it began
    db,           \* the Database object
    roles,        \* IAM: the names of the roles that exist
    bucketExists, \* S3: the bucket DbName exists
    glueDbExists, \* Glue: the catalog database DbName exists
    crawlers,     \* Glue: the names of the crawlers that exist
    crawlerState, \* Glue: the state of the crawler update_tables polls
    observed,     \* the states update_tables observed, in order
    streamState,  \* Firehose: the delivery stream is "absent", "pending" or "present"
    tbl,          \* the Table object
    s3Versions,   \* S3: the object versions in the bucket, [Key, VersionId]
    nextVid,      \* S3: the next version id the bucket hands out
    catalog,      \* Glue: table identifier -> number of table versions
    pending,      \* Table.delete: the listed versions not yet deleted
    versions,     \* Table.get_versions: the list it accumulates
    payload,      \* Table.get_versions: the payload dict after the last turn
    listed        \* Table.delete: the 'Versions' list_object_versions answered

vars == <<pc, op, args, calls, outcome, exc, result, faulted, conflict, existed,
          db, roles, bucketExists, glueDbExists, crawlers, crawlerState, observed,
          streamState, tbl, s3Versions, nextVid, catalog, pending, versions,
          payload, listed>>

clientVars == <<pc, op, args, calls, outcome, exc, result, faulted, conflict, existed>>
dbServiceVars == <<roles, bucketExists, glueDbExists, crawlers, crawlerState>>
\* the state of the Database component, of the Stream and of the Table
databaseVars == <<db, dbServiceVars, observed>>
streamVars == <<streamState>>
tableVars == <<tbl, s3Versions, nextVid, catalog, pending, versions, payload, listed>>

\* one service call in the log
Call(api, arg) == [api |-> api, arg |-> arg]

NoArgs == [none |-> TRUE]

\* no operation is running
Ready == pc \in {"idle", "done"}

\* the Database object before construction
NoDb == [made |-> FALSE, name |-> DbName, iam_role_name |-> None,
         has_arn |-> FALSE, iam_role_arn |-> None, auto_create |-> FALSE]

\* a get_table_versions payload without a NextToken (offset 0)
NoToken == [NextToken |-> 0]

\* the Table object before construction
NoTable == [made |-> FALSE, name |-> PyNone, prefix |-> PyNone, table |-> <<>>]

\* an operation begins with arguments a; ex: the resource it provisions exists
Begin(o, a, ex) ==
    /\ op' = o
    /\ args' = a
    /\ existed' = ex

\* a later step of the running operation
Cont == UNCHANGED <<op, args, existed>>

NoFlags == faulted' = FALSE /\ conflict' = ""
KeepFlags == UNCHANGED <<faulted, conflict>>

\* the operation goes on at position p
Goto(p) ==
    /\ pc' = p
    /\ outcome' = "none"
    /\ exc' = ""
    /\ result' = None

\* the operation returns v
Return(v) ==
    /\ pc' = "done"
    /\ outcome' = "returned"
    /\ result' = v
    /\ exc' = ""

\* the operation raises e, which nothing catches
Raise(e) ==
    /\ pc' = "done"
    /\ outcome' = "raised"
    /\ exc' = e
    /\ result' = None

\* a call raises the genuine fault and nothing catches it
RaiseFault ==
    /\ Raise(Fault)
    /\ faulted' = TRUE
    /\ UNCHANGED conflict

\* the same in the first call of an operation
BeginFault ==
    /\ Raise(Fault)
    /\ faulted' = TRUE
    /\ conflict' = ""

Init ==
    /\ pc = "idle"
    /\ op = "none"
    /\ args = NoArgs
    /\ calls = <<>>
    /\ outcome = "none"
    /\ exc = ""
    /\ result = None
    /\ faulted = FALSE
    /\ conflict = ""
    /\ existed = FALSE
    /\ db = NoDb
    /\ roles = {}
    /\ bucketExists = FALSE
    /\ glueDbExists = FALSE
    /\ crawlers = {}
    /\ crawlerState = "READY"
    /\ observed = <<>>
    /\ streamState = "absent"
    /\ tbl = NoTable
    /\ s3Versions = {}
    /\ nextVid = 1
    /\ catalog = <<>>
    /\ pending = <<>>
    /\ versions = <<>>
    /\ payload = NoToken
    /\ listed = {}

\* the state after Database(DbName, auto_create=True) returned: the handle a
\* Table or a Stream is constructed with
InitProvisioned ==
    /\ pc = "idle"
    /\ op = "none"
    /\ args = NoArgs
    /\ calls = <<>>
    /\ outcome = "none"
    /\ exc = ""
    /\ result = None
    /\ faulted = FALSE
    /\ conflict = ""
    /\ existed = FALSE
    /\ db = [made |-> TRUE, name |-> DbName, iam_role_name |-> DefaultRoleName(DbName),
             has_arn |-> TRUE, iam_role_arn |-> RoleArn(DefaultRoleName(DbName)),
             auto_create |-> TRUE]
    /\ roles = {DefaultRoleName(DbName)}
    /\ bucketExists = TRUE
    /\ glueDbExists = TRUE
    /\ crawlers = {}
    /\ crawlerState = "READY"
    /\ observed = <<>>
    /\ streamState = "absent"
    /\ tbl = NoTable
    /\ s3Versions = {}
    /\ nextVid = 1
    /\ catalog = <<>>
    /\ pending = <<>>
    /\ versions = <<>>
    /\ payload = NoToken
    /\ listed = {}

\* ------------------------------------------------- Database.update_tables

\* update_tables(crawler, wait), to the first poll: glue.start_crawler, then
\* `if wait:`. start_crawler fails for a crawler that does not exist or that
\* is already running, and nothing catches that.
UpdateTables(c, w) ==
    /\ UNCHANGED <<streamVars, tableVars>>
    /\ Ready
    /\ db.made
    /\ Begin("update_tables", [crawler |-> c, wait |-> w], c \in crawlers)
    /\ calls' = <<Call("start_crawler", c)>>
    /\ observed' = <<>>
    /\ UNCHANGED <<db, roles, bucketExists, glueDbExists, crawlers>>
    /\ \/ /\ c \notin crawlers
          /\ Raise("EntityNotFoundException")
          /\ NoFlags
          /\ UNCHANGED crawlerState
       \/ /\ c \in crawlers
          /\ crawlerState # "READY"
          /\ Raise("CrawlerRunningException")
          /\ NoFlags
          /\ UNCHANGED crawlerState
       \/ /\ c \in crawlers
          /\ BeginFault
          /\ UNCHANGED crawlerState
       \/ /\ c \in crawlers
          /\ crawlerState = "READY"
          /\ crawlerState' = "RUNNING"
          /\ NoFlags
          /\ IF Truthy(w) THEN Goto("ut_poll") ELSE Return(None)

\* one turn of `while True:`: glue.get_crawler, then sleep-and-continue in
\* the states RUNNING and STOPPING, break in any other
UtPoll ==
    /\ UNCHANGED <<streamVars, tableVars>>
    /\ pc = "ut_poll"
    /\ Cont
    /\ KeepFlags
    /\ calls' = Append(calls, Call("get_crawler", args.crawler))
    /\ observed' = Append(observed, crawlerState)
    /\ IF CrawlerActive(crawlerState) THEN Goto("ut_sleep") ELSE Return(None)
    /\ UNCHANGED <<db, dbServiceVars>>

\* time.sleep(wait); continue
UtSleep ==
    /\ UNCHANGED <<streamVars, tableVars>>
    /\ pc = "ut_sleep"
    /\ Len(SelectSeq(calls, LAMBDA x: x.api = "sleep")) < MaxSleeps
    /\ Cont
    /\ KeepFlags
    /\ calls' = Append(calls, Call("sleep", "wait"))
    /\ Goto("ut_poll")
    /\ UNCHANGED <<db, dbServiceVars, observed>>

\* the crawler service moves the crawler to another state: its state is
\* owned by the service, the client only observes it
EnvCrawler(s) ==
    /\ UNCHANGED <<streamVars, tableVars>>
    /\ s # crawlerState
    /\ crawlerState' = s
    /\ UNCHANGED <<clientVars, db, roles, bucketExists, glueDbExists, crawlers, observed>>

\* ------------------------------------------------------ Database.__init__

\* self.iam_role_name after line 51
InitRoleName(cr, rn) == IF cr /\ rn = None THEN DefaultRoleName(DbName) ELSE rn

\* the resources a construction with these arguments provisions all exist
InitResourcesExist(cr, rn, ac) ==
    /\ (cr /\ rn = None) => DefaultRoleName(DbName) \in roles
    /\ ac => (bucketExists /\ glueDbExists)

\* after the role part of __init__: `if self.auto_create: self.create()`
InitFinish(ac) == IF ac THEN Goto("cr_bucket") ELSE Return("Database")

\* Database(name, create_iam_role=cr, iam_role_name=rn, auto_create=ac), to
\* its first service call: iam.create_role when a role is to be created and
\* none is named, iam.get_role (DiGetRole) when one is named, no call otherwise
DbInit(cr, rn, ac) ==
    /\ UNCHANGED <<streamVars, tableVars>>
    /\ Ready
    /\ Begin("Database", [create_iam_role |-> cr, iam_role_name |-> rn, auto_create |-> ac],
             InitResourcesExist(cr, rn, ac))
    /\ observed' = <<>>
    /\ UNCHANGED <<bucketExists, glueDbExists, crawlers, crawlerState>>
    /\ LET irn == InitRoleName(cr, rn)
           self == [NoDb EXCEPT !.iam_role_name = irn, !.auto_create = ac]
       IN  IF cr /\ rn = None
           THEN /\ calls' = <<Call("create_role", irn)>>
                /\ \/ /\ irn \in roles
                      \* except iam.exceptions.EntityAlreadyExistsException
                      /\ conflict' = "create_role"
                      /\ faulted' = FALSE
                      /\ Goto("di_get_role")
                      /\ db' = self
                      /\ UNCHANGED roles
                   \/ /\ irn \notin roles
                      /\ roles' = roles \cup {irn}
                      /\ db' = [self EXCEPT !.has_arn = TRUE, !.iam_role_arn = RoleArn(irn)]
                      /\ NoFlags
                      /\ Goto("di_attach")
                   \/ /\ BeginFault
                      /\ db' = self
                      /\ UNCHANGED roles
           ELSE /\ calls' = <<>>
                /\ NoFlags
                /\ UNCHANGED roles
                /\ IF rn # None
                   THEN Goto("di_get_role") /\ db' = self
                   ELSE /\ InitFinish(ac)
                        /\ db' = [self EXCEPT !.made = ~ac]

\* iam.attach_role_policy
DiAttach ==
    /\ UNCHANGED <<streamVars, tableVars>>
    /\ pc = "di_attach"
    /\ Cont
    /\ KeepFlags
    /\ calls' = Append(calls, Call("attach_role_policy", db.iam_role_name))
    /\ Goto("di_put")
    /\ UNCHANGED <<db, dbServiceVars, observed>>

\* iam.put_role_policy, the last call of the try block
DiPut ==
    /\ UNCHANGED <<streamVars, tableVars>>
    /\ pc = "di_put"
    /\ Cont
    /\ KeepFlags
    /\ calls' = Append(calls, Call("put_role_policy", db.iam_role_name))
    /\ InitFinish(db.auto_create)
    /\ db' = [db EXCEPT !.made = ~db.auto_create]
    /\ UNCHANGED <<dbServiceVars, observed>>

\* iam.get_role, in the except block and in the elif branch; a role that
\* does not exist is NoSuchEntityException, which nothing catches
DiGetRole ==
    /\ UNCHANGED <<streamVars, tableVars>>
    /\ pc = "di_get_role"
    /\ Cont
    /\ KeepFlags
    /\ calls' = Append(calls, Call("get_role", db.iam_role_name))
    /\ IF db.iam_role_name \in roles
       THEN /\ InitFinish(db.auto_create)
            /\ db' = [db EXCEPT !.made = ~db.auto_create, !.has_arn = TRUE,
                                !.iam_role_arn = RoleArn(db.iam_role_name)]
       ELSE /\ Raise("NoSuchEntityException")
            /\ UNCHANGED db
    /\ UNCHANGED <<dbServiceVars, observed>>

\* --------------------------------------------------------- Database.create

\* db.create() called on a constructed Database
DbCreate ==
    /\ UNCHANGED <<streamVars, tableVars>>
    /\ Ready
    /\ db.made
    /\ Begin("create", NoArgs, bucketExists /\ glueDbExists)
    /\ NoFlags
    /\ calls' = <<>>
    /\ observed' = <<>>
    /\ Goto("cr_bucket")
    /\ UNCHANGED <<db, dbServiceVars>>

\* self.bucket.create(**bucket_params). For a bucket the caller already owns
\* S3 answers BucketAlreadyOwnedByYou, or success in the us-east-1 region;
\* nothing catches the exception.
CrBucket ==
    /\ UNCHANGED <<streamVars, tableVars>>
    /\ pc = "cr_bucket"
    /\ Cont
    /\ calls' = Append(calls, Call("create_bucket", db.name))
    /\ UNCHANGED <<db, roles, glueDbExists, crawlers, crawlerState, observed>>
    /\ \/ /\ bucketExists
          /\ Raise("BucketAlreadyOwnedByYou")
          /\ conflict' = "create_bucket"
          /\ UNCHANGED <<faulted, bucketExists>>
       \/ /\ bucketExists' = TRUE
          /\ KeepFlags
          /\ Goto("cr_gluedb")

\* self.glue.create_database(DatabaseInput=db_params); return response.
\* Nothing catches AlreadyExistsException.
CrGlueDb ==
    /\ UNCHANGED <<streamVars, tableVars>>
    /\ pc = "cr_gluedb"
    /\ Cont
    /\ calls' = Append(calls, Call("create_database", db.name))
    /\ UNCHANGED <<roles, bucketExists, crawlers, crawlerState, observed>>
    /\ IF glueDbExists
       THEN /\ Raise("AlreadyExistsException")
            /\ conflict' = "create_database"
            /\ UNCHANGED <<faulted, glueDbExists, db>>
       ELSE /\ glueDbExists' = TRUE
            /\ KeepFlags
            /\ IF op = "Database"
               THEN Return("Database") /\ db' = [db EXCEPT !.made = TRUE]
               ELSE Return("/" \o db.name) /\ UNCHANGED db

\* ------------------------------------------------- Database.create_crawler

\* the Name the lookups of lines 193 and 196 ask for: self.name
CrawlerLookupName(self, name) == self.name

\* create_crawler(name), to glue.create_crawler. The payload reads
\* self.iam_role_arn, which __init__ sets only when it created or was given
\* a role.
CreateCrawler(n) ==
    /\ UNCHANGED <<streamVars, tableVars>>
    /\ Ready
    /\ db.made
    /\ Begin("create_crawler", [name |-> n], n \in crawlers)
    /\ observed' = <<>>
    /\ UNCHANGED <<db, roles, bucketExists, glueDbExists, crawlerState>>
    /\ IF ~db.has_arn
       THEN /\ calls' = <<>>
            /\ Raise("AttributeError")
            /\ NoFlags
            /\ UNCHANGED crawlers
       ELSE /\ calls' = <<Call("create_crawler", n)>>
            /\ \/ /\ n \in crawlers
                  \* except self.glue.exceptions.AlreadyExistsException
                  /\ conflict' = "create_crawler"
                  /\ faulted' = FALSE
                  /\ Goto("cc_get")
                  /\ UNCHANGED crawlers
               \/ /\ n \notin crawlers
                  /\ crawlers' = crawlers \cup {n}
                  /\ NoFlags
                  /\ Goto("cc_get")
               \/ /\ BeginFault
                  /\ UNCHANGED crawlers

\* return self.glue.get_crawler(Name=self.name)['Crawler']['Name'], after the
\* create and in the except block; EntityNotFoundException is not caught
CcGet ==
    /\ UNCHANGED <<streamVars, tableVars>>
    /\ pc = "cc_get"
    /\ Cont
    /\ KeepFlags
    /\ LET looked == CrawlerLookupName(db, args.name)
       IN  /\ calls' = Append(calls, Call("get_crawler", looked))
           /\ IF looked \in crawlers
              THEN Return(looked)
              ELSE Raise("EntityNotFoundException")
    /\ UNCHANGED <<db, dbServiceVars, observed>>

\* --------------------------------------------- utils.create_cheapodb_role

\* create_cheapodb_role(name, client, bucket), to client.create_role;
\* EntityAlreadyExistsException becomes CheapoDBException
CreateCheapodbRole(n) ==
    /\ UNCHANGED <<streamVars, tableVars>>
    /\ Ready
    /\ Begin("create_cheapodb_role", [name |-> n], n \in roles)
    /\ calls' = <<Call("create_role", n)>>
    /\ observed' = <<>>
    /\ UNCHANGED <<db, bucketExists, glueDbExists, crawlers, crawlerState>>
    /\ \/ /\ n \in roles
          /\ conflict' = "create_role"
          /\ faulted' = FALSE
          /\ Raise("CheapoDBException")
          /\ UNCHANGED roles
       \/ /\ n \notin roles
          /\ roles' = roles \cup {n}
          /\ NoFlags
          /\ Goto("ccr_attach")
       \/ /\ BeginFault
          /\ UNCHANGED roles

\* client.attach_role_policy
CcrAttach ==
    /\ UNCHANGED <<streamVars, tableVars>>
    /\ pc = "ccr_attach"
    /\ Cont
    /\ KeepFlags
    /\ calls' = Append(calls, Call("attach_role_policy", args.name))
    /\ Goto("ccr_put")
    /\ UNCHANGED <<db, dbServiceVars, observed>>

\* client.put_role_policy; return iam_role_arn
CcrPut ==
    /\ UNCHANGED <<streamVars, tableVars>>
    /\ pc = "ccr_put"
    /\ Cont
    /\ KeepFlags
    /\ calls' = Append(calls, Call("put_role_policy", args.name))
    /\ Return(RoleArn(args.name))
    /\ UNCHANGED <<db, dbServiceVars, observed>>

\* ------------------------------------------------------------ other parties

\* another party creates a role: the race between a probe and a create
EnvCreateRole(n) ==
    /\ UNCHANGED <<streamVars, tableVars>>
    /\ n \notin roles
    /\ roles' = roles \cup {n}
    /\ UNCHANGED <<clientVars, db, bucketExists, glueDbExists, crawlers, crawlerState, observed>>

\* another party creates a crawler
EnvCreateCrawler(n) ==
    /\ UNCHANGED <<streamVars, tableVars>>
    /\ n \notin crawlers
    /\ crawlers' = crawlers \cup {n}
    /\ UNCHANGED <<clientVars, db, roles, bucketExists, glueDbExists, crawlerState, observed>>

NextDatabase ==
    \/ \E cr \in BOOLEAN, rn \in {None, CustomRole}, ac \in BOOLEAN: DbInit(cr, rn, ac)
    \/ DiAttach
    \/ DiPut
    \/ DiGetRole
    \/ DbCreate
    \/ CrBucket
    \/ CrGlueDb
    \/ \E n \in CrawlerNames: CreateCrawler(n)
    \/ CcGet
    \/ \E c \in CrawlerNames, w \in WaitValues: UpdateTables(c, w)
    \/ UtPoll
    \/ UtSleep
    \/ \E n \in RoleNames: CreateCheapodbRole(n)
    \/ CcrAttach
    \/ CcrPut
    \/ \E s \in CrawlerStates: EnvCrawler(s)
    \/ \E n \in RoleNames: EnvCreateRole(n)
    \/ \E n \in CrawlerNames: EnvCreateCrawler(n)

SpecDatabase == Init /\ [][NextDatabase]_vars

\* ------------------------------------------------------------------ Stream

\* the name of the delivery stream
StreamName == "events"

\* the exceptions `except` of Stream.exists catches
StreamExistsCatches(e) == e = "ResourceNotFoundException"

\* firehose.describe_delivery_stream: found once the stream is present
DescribeStreamFinds == streamState = "present"

\* Stream.initialize, to `if self.exists:` (one describe_delivery_stream)
StreamInitialize ==
    /\ UNCHANGED <<databaseVars, streamVars, tableVars>>
    /\ Ready
    /\ Begin("initialize", NoArgs, DescribeStreamFinds)
    /\ calls' = <<Call("describe_delivery_stream", StreamName)>>
    /\ \/ /\ NoFlags
          /\ IF DescribeStreamFinds THEN Goto("si_describe") ELSE Goto("si_create")
       \/ /\ ~StreamExistsCatches(Fault)
          /\ BeginFault

\* return self.describe: a second describe_delivery_stream
SiDescribe ==
    /\ UNCHANGED <<databaseVars, streamVars, tableVars>>
    /\ pc = "si_describe"
    /\ Cont
    /\ KeepFlags
    /\ calls' = Append(calls, Call("describe_delivery_stream", StreamName))
    /\ IF DescribeStreamFinds
       THEN Return("stream/" \o StreamName)
       ELSE Raise("ResourceNotFoundException")

\* self.db.firehose.create_delivery_stream(**config); the service answers
\* ResourceInUseException for a name that is taken, which nothing catches
SiCreate ==
    /\ UNCHANGED <<databaseVars, tableVars>>
    /\ pc = "si_create"
    /\ Cont
    /\ IF ~db.has_arn
       THEN /\ Raise("AttributeError")
            /\ KeepFlags
            /\ UNCHANGED <<calls, streamState>>
       ELSE /\ calls' = Append(calls, Call("create_delivery_stream", StreamName))
            /\ IF streamState # "absent"
               THEN /\ Raise("ResourceInUseException")
                    /\ conflict' = "create_delivery_stream"
                    /\ UNCHANGED <<faulted, streamState>>
               ELSE /\ streamState' = "pending"
                    /\ KeepFlags
                    /\ Goto("si_wait")

\* `while True: if self.exists: break`, then return response
SiWait ==
    /\ UNCHANGED <<databaseVars, streamVars, tableVars>>
    /\ pc = "si_wait"
    /\ Cont
    /\ calls' = Append(calls, Call("describe_delivery_stream", StreamName))
    /\ \/ /\ KeepFlags
          /\ IF DescribeStreamFinds THEN Return("stream/" \o StreamName) ELSE Goto("si_sleep")
       \/ /\ ~StreamExistsCatches(Fault)
          /\ RaiseFault

\* time.sleep(10)
SiSleep ==
    /\ UNCHANGED <<databaseVars, streamVars, tableVars>>
    /\ pc = "si_sleep"
    /\ Len(SelectSeq(calls, LAMBDA x: x.api = "sleep")) < MaxSleeps
    /\ Cont
    /\ KeepFlags
    /\ calls' = Append(calls, Call("sleep", "10"))
    /\ Goto("si_wait")

\* Stream.exists read by the caller
StreamExists ==
    /\ UNCHANGED <<databaseVars, streamVars, tableVars>>
    /\ Ready
    /\ Begin("Stream.exists", NoArgs, DescribeStreamFinds)
    /\ calls' = <<Call("describe_delivery_stream", StreamName)>>
    /\ \/ /\ NoFlags
          /\ Return(IF DescribeStreamFinds THEN "True" ELSE "False")
       \/ IF StreamExistsCatches(Fault)
          THEN /\ Return("False")
               /\ faulted' = TRUE
               /\ conflict' = ""
          ELSE BeginFault

\* Stream.delete, to `if self.exists:`
StreamDelete ==
    /\ UNCHANGED <<databaseVars, streamVars, tableVars>>
    /\ Ready
    /\ Begin("Stream.delete", NoArgs, DescribeStreamFinds)
    /\ calls' = <<Call("describe_delivery_stream", StreamName)>>
    /\ \/ /\ NoFlags
          /\ IF DescribeStreamFinds THEN Goto("sd_delete") ELSE Return(None)
       \/ /\ ~StreamExistsCatches(Fault)
          /\ BeginFault

\* self.db.firehose.delete_delivery_stream; return response
SdDelete ==
    /\ UNCHANGED <<databaseVars, tableVars>>
    /\ pc = "sd_delete"
    /\ Cont
    /\ calls' = Append(calls, Call("delete_delivery_stream", StreamName))
    /\ \/ /\ streamState # "absent"
          /\ streamState' = "absent"
          /\ KeepFlags
          /\ Return("deleted/" \o StreamName)
       \/ /\ streamState = "absent"
          /\ Raise("ResourceNotFoundException")
          /\ KeepFlags
          /\ UNCHANGED streamState
       \/ /\ RaiseFault
          /\ UNCHANGED streamState

\* another party creates the stream: the race between probe and create
EnvCreateStream ==
    /\ streamState = "absent"
    /\ streamState' = "present"
    /\ UNCHANGED <<clientVars, databaseVars, tableVars>>

\* the service makes a created stream visible to describe_delivery_stream
EnvStreamVisible ==
    /\ streamState = "pending"
    /\ streamState' = "present"
    /\ UNCHANGED <<clientVars, databaseVars, tableVars>>

\* another party deletes the stream
EnvDeleteStream ==
    /\ streamState = "present"
    /\ streamState' = "absent"
    /\ UNCHANGED <<clientVars, databaseVars, tableVars>>

\* ------------------------------------------------------ Stream.from_records

\* size=500 of self._chunks(records, size=500)
BatchSize == 500

\* the lengths of the record lists from_records is called with
RecordCounts == {0, 1, 500, 501, 1201}
\* the values of threads
ThreadCounts == {1, 4}

\* the i-th record, a dict
PyDict(i) == [t |-> "dict", v |-> i]
\* chain([first], islice(iterator, size - 1)): what _chunks yields, an
\* iterator over the records from..to
PyChain(from, to) == [t |-> "chain", v |-> from, to |-> to]

\* json.dumps(x): a dict is serialized, an iterator is a TypeError
JsonDumps(x) ==
    IF x.t = "dict"
    THEN [exc |-> "", val |-> [Data |-> x.v]]
    ELSE [exc |-> "TypeError", val |-> [Data |-> 0]]

\* Stream._chunks over n records: the chain objects the generator yields when
\* each is consumed before the next is asked for
Chunks(n, size) ==
    [i \in 1..((n + size - 1) \div size) |->
        PyChain((i - 1) * size + 1, IF i * size < n THEN i * size ELSE n)]

\* [{'Data': f'{json.dumps(x)}\n'.encode()} for x in self._chunks(records, size=500)]:
\* one entry per x the generator yields, or the first exception json.dumps raises
RecordsArgument(n) ==
    LET chunks == Chunks(n, BatchSize)
        dumped == [i \in 1..Len(chunks) |-> JsonDumps(chunks[i])]
        bad == {i \in 1..Len(chunks): dumped[i].exc # ""}
    IN  IF bad = {}
        THEN [exc |-> "", val |-> [i \in 1..Len(chunks) |-> dumped[i].val]]
        ELSE [exc |-> dumped[CHOOSE i \in bad: \A j \in bad: i <= j].exc, val |-> <<>>]

\* Stream.from_records(records, threads): the argument list is built in the
\* calling thread, then one put_record_batch is submitted to the executor;
\* the Future is dropped, so what the call raises reaches nobody
FromRecords(n, th) ==
    /\ UNCHANGED <<databaseVars, streamVars, tableVars>>
    /\ Ready
    /\ Begin("from_records", [n |-> n, threads |-> th], DescribeStreamFinds)
    /\ LET built == RecordsArgument(n)
       IN  IF built.exc # ""
           THEN /\ calls' = <<>>
                /\ Raise(built.exc)
                /\ NoFlags
           ELSE /\ calls' = <<Call("put_record_batch", built.val)>>
                /\ Return(None)
                /\ conflict' = ""
                /\ faulted' \in BOOLEAN

NextStream ==
    \/ StreamInitialize
    \/ SiDescribe
    \/ SiCreate
    \/ SiWait
    \/ SiSleep
    \/ StreamExists
    \/ StreamDelete
    \/ SdDelete
    \/ \E n \in RecordCounts, th \in ThreadCounts: FromRecords(n, th)
    \/ EnvCreateStream
    \/ EnvStreamVisible
    \/ EnvDeleteStream

SpecStream == InitProvisioned /\ [][NextStream]_vars


\* ------------------------------------------------------------------- Table

\* at most this many object versions are ever uploaded
MaxObjectVersions == 3
\* at most this many tables are in the catalog
MaxCatalogTables == 2
\* get_versions is stopped after this many get_table_versions calls
MaxGvCalls == 3

\* MaxResults=100 of the get_table_versions payload
MaxResults == 100

\* the numbers of versions a catalog table has
VersionCounts == {0, 1, 101}

\* the (prefix, name) arguments Tables are constructed with: tables of one
\* prefix, one name a prefix of the other
TablePrefixes == {PyStr(<<"p">>)}
TableNames == {PyStr(<<"a">>), PyStr(<<"a", "b">>)}

\* the arguments the naming functions are tried on
NamingPrefixes == {PyStr(<<"p">>), PyStr(<<" ", "p">>)}
NamingNames == {PyStr(<<"a">>), PyStr(<<"a", "b">>), PyStr(<<>>), PyStr(<<"a", " ">>),
                PyStr(<<"/", "a">>), PyNone}

\* the locals of get_versions and of delete are gone when another operation begins
ResetLocals ==
    /\ pending' = <<>>
    /\ versions' = <<>>
    /\ payload' = NoToken
    /\ listed' = {}

\* utils.normalize_table_name(name)
normalize_table_name(name) ==
    IF name.t # "str" THEN [exc |-> "ValueError", val |-> <<>>]
    ELSE LET n == Strip(name.s)
         IN  IF Len(n) = 0 THEN [exc |-> "ValueError", val |-> <<>>]
             ELSE [exc |-> "", val |-> n]

\* the argument of line 29: f'{self.prefix}_{self.name}', always a str
TableIdText(prefix, name) == PyStr(FStr(prefix) \o <<"_">> \o FStr(name))

\* Table(db, name, prefix): no service call
TableInit(prefix, name) ==
    /\ UNCHANGED <<databaseVars, streamVars>>
    /\ Ready
    /\ Begin("Table", [name |-> name, prefix |-> prefix], FALSE)
    /\ calls' = <<>>
    /\ NoFlags
    /\ LET t == normalize_table_name(TableIdText(prefix, name))
       IN  IF t.exc # ""
           THEN /\ Raise(t.exc)
                /\ tbl' = NoTable
           ELSE /\ Return("Table")
                /\ tbl' = [made |-> TRUE, name |-> name, prefix |-> prefix, table |-> t.val]
    /\ UNCHANGED <<s3Versions, nextVid, catalog>>
    /\ ResetLocals

\* target = os.path.join(self.prefix, self.name, self.name); os.path.join
\* raises TypeError for a component that is not a str
Target(self) ==
    IF self.prefix.t = "str" /\ self.name.t = "str"
    THEN [exc |-> "", val |-> OsPathJoin(self.prefix.s, self.name.s, self.name.s)]
    ELSE [exc |-> "TypeError", val |-> <<>>]

\* Table.upload(f): bucket.upload_file(f, target) stores a new version of
\* the object (the bucket keeps versions)
Upload ==
    /\ UNCHANGED <<databaseVars, streamVars>>
    /\ Ready
    /\ tbl.made
    /\ nextVid <= MaxObjectVersions
    /\ Begin("upload", NoArgs, FALSE)
    /\ NoFlags
    /\ LET target == Target(tbl)
       IN  IF target.exc # ""
           THEN /\ calls' = <<>>
                /\ Raise(target.exc)
                /\ UNCHANGED <<s3Versions, nextVid>>
           ELSE /\ calls' = <<Call("upload_file", target.val)>>
                /\ s3Versions' = s3Versions \cup {[Key |-> target.val, VersionId |-> nextVid]}
                /\ nextVid' = nextVid + 1
                /\ Return(None)
    /\ UNCHANGED <<tbl, catalog>>
    /\ ResetLocals

\* Table.download(f): bucket.download_file(target, f); a missing object is
\* the service's ClientError
Download ==
    /\ UNCHANGED <<databaseVars, streamVars, tbl, s3Versions, nextVid, catalog>>
    /\ ResetLocals
    /\ Ready
    /\ tbl.made
    /\ Begin("download", NoArgs, FALSE)
    /\ NoFlags
    /\ LET target == Target(tbl)
       IN  IF target.exc # ""
           THEN /\ calls' = <<>>
                /\ Raise(target.exc)
           ELSE /\ calls' = <<Call("download_file", target.val)>>
                /\ IF \E v \in s3Versions: v.Key = target.val
                   THEN Return(None)
                   ELSE Raise("ClientError")

NextNaming ==
    \/ \E p \in NamingPrefixes, n \in NamingNames: TableInit(p, n)
    \/ Upload
    \/ Download

SpecNaming == InitProvisioned /\ [][NextNaming]_vars


\* the exceptions `except (EntityNotFoundException, Exception)` of
\* Table.exists catches: every exception is an Exception
TableExistsCatches(e) == TRUE

\* Table.exists read by the caller: self.describe() in a try block
TableExists ==
    /\ UNCHANGED <<databaseVars, streamVars, tbl, s3Versions, nextVid, catalog>>
    /\ ResetLocals
    /\ Ready
    /\ tbl.made
    /\ Begin("Table.exists", NoArgs, tbl.table \in DOMAIN catalog)
    /\ calls' = <<Call("get_table", tbl.table)>>
    /\ conflict' = ""
    /\ \/ /\ tbl.table \in DOMAIN catalog
          /\ faulted' = FALSE
          /\ Return("True")
       \/ /\ tbl.table \notin DOMAIN catalog
          /\ faulted' = FALSE
          /\ IF TableExistsCatches("EntityNotFoundException")
             THEN Return("False")
             ELSE Raise("EntityNotFoundException")
       \/ /\ faulted' = TRUE
          /\ IF TableExistsCatches(Fault) THEN Return("False") ELSE Raise(Fault)

\* Table.describe(): glue.get_table, nothing caught
TableDescribe ==
    /\ UNCHANGED <<databaseVars, streamVars, tbl, s3Versions, nextVid, catalog>>
    /\ ResetLocals
    /\ Ready
    /\ tbl.made
    /\ Begin("describe", NoArgs, tbl.table \in DOMAIN catalog)
    /\ calls' = <<Call("get_table", tbl.table)>>
    /\ \/ /\ tbl.table \in DOMAIN catalog
          /\ NoFlags
          /\ Return("table")
       \/ /\ tbl.table \notin DOMAIN catalog
          /\ NoFlags
          /\ Raise("EntityNotFoundException")
       \/ BeginFault

\* ------------------------------------------------------ Table.get_versions

\* the payload a turn of the loop sends: lines 50-54 build it anew, without
\* the NextToken line 59 stored in the payload of the turn before
GvRequest(previous) == NoToken

\* glue.get_table_versions for a table of n versions: the page after the
\* offset the token names, and the token of the next page (0: there is none)
GvPage(n, request) ==
    LET start == request.NextToken
        size == IF n - start < MaxResults THEN n - start ELSE MaxResults
    IN  [TableVersions |-> [i \in 1..size |-> start + i],
         NextToken |-> IF start + MaxResults < n THEN start + MaxResults ELSE 0]

\* Table.get_versions(), to the loop; args keeps the number of versions the
\* catalog held when the call began
GetVersions ==
    /\ UNCHANGED <<databaseVars, streamVars>>
    /\ Ready
    /\ tbl.made
    /\ Begin("get_versions",
             [catalog_versions |-> IF tbl.table \in DOMAIN catalog THEN catalog[tbl.table] ELSE 0],
             tbl.table \in DOMAIN catalog)
    /\ NoFlags
    /\ calls' = <<>>
    /\ versions' = <<>>
    /\ payload' = NoToken
    /\ Goto("gv_loop")
    /\ pending' = <<>>
    /\ listed' = {}
    /\ UNCHANGED <<tbl, s3Versions, nextVid, catalog>>

\* one turn of `while True:`. On the last page the service leaves the key
\* NextToken out of the response (response['NextToken'] is a KeyError), or
\* a stand-in for it answers the key with an empty value.
GvLoop ==
    /\ UNCHANGED <<databaseVars, streamVars>>
    /\ pc = "gv_loop"
    /\ Len(calls) < MaxGvCalls
    /\ Cont
    /\ KeepFlags
    /\ UNCHANGED <<tbl, s3Versions, nextVid, catalog, pending, listed>>
    /\ LET request == GvRequest(payload)
       IN  /\ calls' = Append(calls, Call("get_table_versions", request.NextToken))
           /\ IF tbl.table \notin DOMAIN catalog
              THEN /\ Raise("EntityNotFoundException")
                   /\ UNCHANGED <<versions, payload>>
              ELSE LET response == GvPage(catalog[tbl.table], request)
                   IN  IF response.TableVersions = <<>>
                       THEN /\ Return("versions")
                            /\ payload' = request
                            /\ UNCHANGED versions
                       ELSE \/ /\ response.NextToken = 0
                               /\ Raise("KeyError")
                               /\ payload' = request
                               /\ UNCHANGED versions
                            \/ /\ payload' = [NextToken |-> response.NextToken]
                               /\ versions' = versions \o response.TableVersions
                               /\ Goto("gv_loop")

\* ------------------------------------------------------------ Table.delete

\* d = f'{self.prefix}/{self.name}'
DataPrefix(self) == FStr(self.prefix) \o <<"/">> \o FStr(self.name)

\* the object versions list_object_versions(Prefix=d) answers
ListObjectVersions(d) == {v \in s3Versions: StartsWith(v.Key, d)}

\* a listing as the list the comprehension walks, oldest version first
RECURSIVE VersionSeq(_)
VersionSeq(S) ==
    IF S = {} THEN <<>>
    ELSE LET v == CHOOSE x \in S: \A y \in S: x.VersionId <= y.VersionId
         IN  <<v>> \o VersionSeq(S \ {v})

\* a mutation of DeleteDataCatches: no except clause
DeleteDataCatchesNothing(e) == FALSE

\* `except KeyError:` around the listing and the deletes
DeleteDataCatches(e) == e = "KeyError"

\* Table.delete(include_data), to the listing: the response of an empty
\* listing has no 'Versions' key, a KeyError
TableDelete(inc) ==
    /\ UNCHANGED <<databaseVars, streamVars>>
    /\ Ready
    /\ tbl.made
    /\ Begin("delete", [include_data |-> inc], tbl.table \in DOMAIN catalog)
    /\ versions' = <<>>
    /\ payload' = NoToken
    /\ UNCHANGED <<tbl, s3Versions, nextVid, catalog>>
    /\ IF inc
       THEN LET d == DataPrefix(tbl)
                found == ListObjectVersions(d)
            IN  /\ calls' = <<Call("list_object_versions", d)>>
                /\ \/ /\ found = {}
                      /\ NoFlags
                      /\ listed' = {}
                      /\ pending' = <<>>
                      /\ IF DeleteDataCatches("KeyError")
                         THEN Goto("td_glue")
                         ELSE Raise("KeyError")
                   \/ /\ found # {}
                      /\ NoFlags
                      /\ listed' = found
                      /\ pending' = VersionSeq(found)
                      /\ Goto("td_objects")
                   \/ /\ listed' = {}
                      /\ pending' = <<>>
                      /\ faulted' = TRUE
                      /\ conflict' = ""
                      /\ IF DeleteDataCatches(Fault) THEN Goto("td_glue") ELSE Raise(Fault)
       ELSE /\ calls' = <<>>
            /\ NoFlags
            /\ listed' = {}
            /\ pending' = <<>>
            /\ Goto("td_glue")

\* one self.db.s3.delete_object(Bucket, Key, VersionId) of the comprehension
TdObject ==
    /\ UNCHANGED <<databaseVars, streamVars>>
    /\ pc = "td_objects"
    /\ Cont
    /\ UNCHANGED <<tbl, nextVid, catalog, versions, payload, listed>>
    /\ LET x == Head(pending)
       IN  /\ calls' = Append(calls, Call("delete_object", x))
           /\ \/ /\ s3Versions' = s3Versions \ {x}
                 /\ pending' = Tail(pending)
                 /\ KeepFlags
                 /\ IF Tail(pending) = <<>> THEN Goto("td_glue") ELSE Goto("td_objects")
              \/ /\ faulted' = TRUE
                 /\ UNCHANGED <<conflict, s3Versions, pending>>
                 /\ IF DeleteDataCatches(Fault) THEN Goto("td_glue") ELSE Raise(Fault)

\* self.db.glue.delete_table in a try block that catches
\* EntityNotFoundException; return
TdGlue ==
    /\ UNCHANGED <<databaseVars, streamVars>>
    /\ pc = "td_glue"
    /\ Cont
    /\ calls' = Append(calls, Call("delete_table", tbl.table))
    /\ UNCHANGED <<tbl, s3Versions, nextVid, pending, versions, payload, listed>>
    /\ \/ /\ tbl.table \in DOMAIN catalog
          /\ catalog' = [t \in DOMAIN catalog \ {tbl.table} |-> catalog[t]]
          /\ KeepFlags
          /\ Return(None)
       \/ /\ tbl.table \notin DOMAIN catalog
          /\ UNCHANGED catalog
          /\ KeepFlags
          /\ Return(None)
       \/ /\ RaiseFault
          /\ UNCHANGED catalog

\* a crawler run registers the table in the catalog, or adds versions to it
EnvCrawl(n) ==
    /\ Ready
    /\ tbl.made
    /\ Cardinality(DOMAIN catalog \cup {tbl.table}) <= MaxCatalogTables
    /\ tbl.table \in DOMAIN catalog => catalog[tbl.table] < n
    /\ catalog' = [t \in DOMAIN catalog \cup {tbl.table} |->
                      IF t = tbl.table THEN n ELSE catalog[t]]
    /\ UNCHANGED <<clientVars, databaseVars, streamVars,
                   tbl, s3Versions, nextVid, pending, versions, payload, listed>>

NextTable ==
    \/ \E p \in TablePrefixes, n \in TableNames: TableInit(p, n)
    \/ Upload
    \/ Download
    \/ TableExists
    \/ TableDescribe
    \/ GetVersions
    \/ GvLoop
    \/ \E inc \in BOOLEAN: TableDelete(inc)
    \/ TdObject
    \/ TdGlue
    \/ \E n \in VersionCounts: EnvCrawl(n)

SpecTable == InitProvisioned /\ [][NextTable]_vars

\* the whole client: the operations of the three handles and the other parties
Next == NextDatabase \/ NextStream \/ NextNaming \/ NextTable

Spec == Init /\ [][Next]_vars


\* ------------------------------------------------------------------ claims

\* the number of calls of api a the running operation issued
CountCalls(a) == Len(SelectSeq(calls, LAMBDA x: x.api = a))

\* the positions of the calls of api a
CallsAt(a) == {i \in 1..Len(calls): calls[i].api = a}

\* C1: update_tables with waiting enabled sleeps once after every
\* observation of RUNNING or STOPPING and never after another, asks for the
\* status once more than it sleeps, and returns on the first observation
\* that is neither: k active observations then one other give k sleeps and
\* k+1 get_crawler calls.
C1_PollSleepsOncePerActiveObservation ==
    (/\ op = "update_tables"
     /\ args.wait \notin {PyBool(FALSE), PyInt(0)}
     /\ (pc # "done" \/ outcome = "returned"))
    => LET q == CountCalls("get_crawler")
           sl == CountCalls("sleep")
           active == {i \in 1..Len(observed): observed[i] \in {"RUNNING", "STOPPING"}}
       IN  /\ q = Len(observed)
           /\ calls[1].api = "start_crawler"
           /\ \A i \in 2..Len(calls):
                 calls[i].api = (IF i % 2 = 0 THEN "get_crawler" ELSE "sleep")
           /\ pc = "ut_poll" => (active = 1..q /\ sl = q)
           /\ pc = "ut_sleep" => (active = 1..q /\ sl = q - 1)
           /\ pc = "done" => (/\ q >= 1
                              /\ active = 1..(q - 1)
                              /\ sl = q - 1
                              /\ Len(calls) = 2 * q)

\* RUNNING, RUNNING, READY was observed and update_tables returned after two sleeps
C1_Witness ==
    /\ op = "update_tables"
    /\ pc = "done"
    /\ outcome = "returned"
    /\ observed = <<"RUNNING", "RUNNING", "READY">>
    /\ CountCalls("sleep") = 2

\* C2: update_tables with wait False or 0 issues one start_crawler call and
\* nothing else: no get_crawler, no sleep, and it is over with that call (it
\* returns, or start_crawler's own exception leaves it).
C2_NoWaitNoStatusQuery ==
    (op = "update_tables" /\ args.wait \in {PyBool(FALSE), PyInt(0)})
    => /\ pc = "done"
       /\ calls = <<Call("start_crawler", args.crawler)>>
       /\ observed = <<>>
       /\ outcome = "raised" =>
             exc \in {"EntityNotFoundException", "CrawlerRunningException", Fault}

\* update_tables(crawler, 0) returned while the crawler it started is running
C2_Witness ==
    /\ op = "update_tables"
    /\ args.wait = PyInt(0)
    /\ outcome = "returned"
    /\ crawlerState = "RUNNING"
    /\ calls = <<Call("start_crawler", args.crawler)>>

\* the create calls and the lookups of the services
CreateApis == {"create_role", "create_bucket", "create_database", "create_crawler",
               "create_delivery_stream"}
LookupApis == {"get_role", "get_crawler", "describe_delivery_stream"}

\* C3: an operation that provisions a resource, run while the resource
\* already exists, sends no create call (a probe comes before any), does not
\* fail, and returns the identifier of the resource.
C3_CreateOrGetIdempotent ==
    (/\ op \in {"Database", "create", "create_crawler", "initialize"}
     /\ op = "Database" => (args.create_iam_role /\ args.iam_role_name = None)
     /\ existed)
    => /\ \A i \in 1..Len(calls): calls[i].api \notin CreateApis
       /\ outcome # "raised"
       /\ (pc = "done" /\ op = "create_crawler") => result = args.name
       /\ (pc = "done" /\ op = "create") => result = "/" \o DbName

\* C4: when the create call of a role, crawler or pipeline creation raises
\* already-exists, the operation looks the resource up and returns it.
C4_ConflictFallsBackToLookup ==
    (/\ pc = "done"
     /\ conflict \in {"create_role", "create_crawler", "create_delivery_stream"})
    => /\ outcome = "returned"
       /\ calls[Len(calls)].api \in LookupApis

\* C5: from_records of n >= 1 records issues ceil(n/500) put_record_batch
\* calls, the i-th carrying 500 entries and the last the rest, whatever the
\* number of threads.
C5_FromRecordsBatches ==
    (op = "from_records" /\ pc = "done" /\ args.n >= 1)
    => LET n == args.n
           want == (n + 499) \div 500
       IN  /\ outcome = "returned"
           /\ Len(calls) = want
           /\ \A i \in 1..Len(calls):
                 /\ calls[i].api = "put_record_batch"
                 /\ Len(calls[i].arg) = (IF i * 500 <= n THEN 500 ELSE n - (i - 1) * 500)

C7_NamingValidated ==
    /\ (op = "Table" /\ pc = "done") =>
          IF args.name.t # "str" \/ args.name.s = <<>>
          THEN outcome = "raised" /\ exc = "ValueError"
          ELSE outcome = "returned" =>
                  tbl.table = Strip(args.prefix.s \o <<"_">> \o args.name.s)
    /\ (op \in {"upload", "download"} /\ pc = "done" /\ calls # <<>>) =>
          calls[1].arg = tbl.prefix.s \o <<"/">> \o tbl.name.s \o <<"/">> \o tbl.name.s

\* C8: an operation in which a call raised a genuine fault ends by raising
\* that fault.
C8_FaultsPropagate ==
    faulted => (pc = "done" /\ outcome = "raised" /\ exc = Fault)

\* C9: create_crawler(name), when its calls raise no fault, returns name.
C9_CreateCrawlerReturnsName ==
    (op = "create_crawler" /\ pc = "done" /\ calls # <<>> /\ ~faulted)
    => (outcome = "returned" /\ result = args.name)

\* C10: get_versions of a table with n versions asks for no more pages than
\* there are (and once more for the empty one), never holds a version twice,
\* and returns the n versions.
C10_GetVersionsEachOnce ==
    (op = "get_versions" /\ existed)
    => LET n == args.catalog_versions
       IN  /\ CountCalls("get_table_versions") <= (n + 99) \div 100 + 1
           /\ \A i, j \in 1..Len(versions): versions[i] = versions[j] => i = j
           /\ pc = "done" => (outcome = "returned" /\ versions = [i \in 1..n |-> i])


\* C11: Table.delete on a table issues delete_object only for keys under its
\* own prefix/name/ directory, and never for the prefix/name/name object of
\* another table of the same prefix.
C11_DeleteLeavesOtherTables ==
    (op = "delete" /\ args.include_data)
    => LET directory == DataPrefix(tbl) \o <<"/">>
       IN  \A i \in CallsAt("delete_object"):
              /\ StartsWith(calls[i].arg.Key, directory)
              /\ \A name \in TableNames \ {tbl.name}:
                    calls[i].arg.Key # OsPathJoin(tbl.prefix.s, name.s, name.s)

====
